---- MODULE Spec2Model ----
(***************************************************************************)
(* shoutcast_api/stations.py: the six endpoint functions and the two       *)
(* response normalizers (_handle_url_action_xml, _handle_url_action_json). *)
(*                                                                         *)
(* A call runs in a thread: the endpoint function validates and builds the *)
(* endpoint (one step, local computation only), the handler calls the      *)
(* transport (one step), inspects the response (one step), and, for a list *)
(* of records, appends one Station per loop iteration and returns.         *)
(*                                                                         *)
(* Text is a sequence of one-character strings; the literal parts of an    *)
(* endpoint are single elements of the same sequence.                      *)
(***************************************************************************)
EXTENDS Integers, Sequences, FiniteSets, TLC

VARIABLES
    tuneins,    \* shoutcast_request.tuneins, the process-wide tunein value
    pc,         \* per thread: "idle", "call", "got", "loop", "done"
    args,       \* per thread: the arguments of the endpoint function call
    urlargs,    \* per thread: the keyword arguments handed to _build_url
    endpoint,   \* per thread: the endpoint handed to the handler
    handler,    \* per thread: "xml" or "json", the handler the call runs
    calls,      \* per thread: the transport invocations, in order
    response,   \* per thread: what the transport returned
    stations,   \* the handlers' `stations` lists
    idx,        \* per thread: position of the for loop in api_stations
    result      \* per thread: what the call returned or raised

vars == <<tuneins, pc, args, urlargs, endpoint, handler, calls, response,
          stations, idx, result>>

----------------------------------------------------------------------------
(* Bounds *)

MaxLen == 2         \* longest free-text query value
MaxRecords == 2     \* longest list of raw station records

Threads == {"t1", "t2"}
Chars == {" ", "\t", "a"}
Keys == {<<"k", "1">>, <<"k", "2">>}
Tuneins == {"/sbin/tunein-station.pls", "/sbin/tunein-station.m3u"}
TransportErrors == {"ConnectionError", "HTTPError"}

----------------------------------------------------------------------------
(* Python values *)

NoneV == [ty |-> "none", i |-> 0, s |-> ""]
IntV(n) == [ty |-> "int", i |-> n, s |-> ""]
StrV(x) == [ty |-> "str", i |-> 0, s |-> x]
TruthyVal(v) == (v.ty = "int" /\ v.i # 0) \/ (v.ty = "str" /\ v.s # "")

NoneText == [ty |-> "none", chars |-> <<>>]
StrText(s) == [ty |-> "str", chars |-> s]
TruthyText(x) == x.ty = "str" /\ x.chars # <<>>

SeqsUpTo(S, n) == UNION {[1..m -> S] : m \in 0..n}

IsSpace(c) == c \in {" ", "\t"}

\* str.replace(' ', '+')
ReplaceSpaces(s) == [j \in 1..Len(s) |-> IF s[j] = " " THEN "+" ELSE s[j]]

RECURSIVE LStrip(_)
LStrip(s) == IF s # <<>> /\ IsSpace(Head(s)) THEN LStrip(Tail(s)) ELSE s

RECURSIVE RStrip(_)
RStrip(s) ==
    IF s # <<>> /\ IsSpace(s[Len(s)]) THEN RStrip(SubSeq(s, 1, Len(s) - 1)) ELSE s

\* str.strip()
Strip(s) == RStrip(LStrip(s))

\* text.replace(' ', '+').strip()
EmbedText(s) == Strip(ReplaceSpaces(s))

\* '{}'.format(n) for n >= 0
RECURSIVE DecStr(_)
DecStr(n) ==
    LET d == <<"0", "1", "2", "3", "4", "5", "6", "7", "8", "9">>[(n % 10) + 1]
    IN  IF n < 10 THEN <<d>> ELSE Append(DecStr(n \div 10), d)

----------------------------------------------------------------------------
(* models.py and utils.py *)

Station(attrs) == [attrs |-> attrs]

StationList(tunein, sts) == [kind |-> "StationList", tunein |-> tunein,
                             stations |-> sts, error |-> ""]

Raised(err) == [kind |-> "raised", tunein |-> "", stations |-> <<>>, error |-> err]

NoResult == [kind |-> "none", tunein |-> "", stations |-> <<>>, error |-> ""]

\* A raw record is a mapping, held as a set of <<key, value>> pairs; a key is a
\* sequence of tokens, "@" being the attribute prefix of XML-derived mappings.
XmlKey(name) == <<"@", name>>
JsonKey(name) == <<name>>

Lower(tok) == CASE tok = "ID" -> "id" [] tok = "Name" -> "name" [] OTHER -> tok

station_xml_strip(rec) ==
    {<<IF Head(p[1]) = "@" THEN Tail(p[1]) ELSE p[1], p[2]>> : p \in rec}

station_json_strip(rec) ==
    {<<[j \in 1..Len(p[1]) |-> Lower(p[1][j])], p[2]>> : p \in rec}

\* '{}'.format(v)
FormatVal(v) == IF v.ty = "int" THEN DecStr(v.i) ELSE <<v.s>>

LimitPart(limit) ==
    IF limit = <<>> THEN <<>>
    ELSE <<"offset=">> \o DecStr(limit[1]) \o <<"&limit=">> \o DecStr(limit[2])

RECURSIVE ParamsPart(_)
ParamsPart(params) ==
    IF params = <<>> THEN <<>>
    ELSE LET p == Head(params)
         IN  (IF TruthyVal(p[2]) THEN <<p[1], "=">> \o FormatVal(p[2]) ELSE <<>>)
             \o ParamsPart(Tail(params))

build_url(limit, params) == LimitPart(limit) \o ParamsPart(params)

----------------------------------------------------------------------------
(* What the transport hands back *)

RawRecords(fmt) ==
    IF fmt = "xml"
    THEN {{<<XmlKey("id"), "1">>, <<XmlKey("name"), "X">>},
          {<<XmlKey("id"), "2">>, <<XmlKey("name"), "Y">>}}
    ELSE {{<<JsonKey("ID"), "1">>, <<JsonKey("Name"), "X">>},
          {<<JsonKey("ID"), "2">>, <<JsonKey("Name"), "Y">>}}

\* The value of api_station_list.get('station'), with its runtime type.
StationAbsent == [kind |-> "absent", items |-> <<>>, rec |-> {}]
StationNone == [kind |-> "none", items |-> <<>>, rec |-> {}]
StationMapping(rec) == [kind |-> "mapping", items |-> <<>>, rec |-> rec]
StationSeq(items) == [kind |-> "list", items |-> items, rec |-> {}]

StationValues(fmt) ==
    {StationAbsent, StationNone, StationMapping({})}
    \cup {StationMapping(r) : r \in RawRecords(fmt)}
    \cup {StationSeq(s) : s \in SeqsUpTo(RawRecords(fmt), MaxRecords)}

TransportFailure(err) ==
    [ok |-> FALSE, error |-> err, has_stationlist |-> FALSE, station |-> StationAbsent]
NoStationList ==
    [ok |-> TRUE, error |-> "", has_stationlist |-> FALSE, station |-> StationAbsent]
Body(st) == [ok |-> TRUE, error |-> "", has_stationlist |-> TRUE, station |-> st]
NoResponse ==
    [ok |-> TRUE, error |-> "none", has_stationlist |-> FALSE, station |-> StationAbsent]

Responses(fmt) ==
    {TransportFailure(e) : e \in TransportErrors}
    \cup {NoStationList}
    \cup {Body(st) : st \in StationValues(fmt)}

----------------------------------------------------------------------------
(* State after construction *)

NoArgs == [op |-> "none", k |-> <<>>, text |-> NoneText, limit |-> <<>>,
           br_given |-> FALSE, br |-> NoneV, genre_id |-> NoneV, kwargs |-> <<>>]

Init ==
    /\ tuneins \in Tuneins
    /\ pc = [t \in Threads |-> "idle"]
    /\ args = [t \in Threads |-> NoArgs]
    /\ urlargs = [t \in Threads |-> <<>>]
    /\ endpoint = [t \in Threads |-> <<>>]
    /\ handler = [t \in Threads |-> "none"]
    /\ calls = [t \in Threads |-> <<>>]
    /\ response = [t \in Threads |-> NoResponse]
    /\ stations = [t \in Threads |-> <<>>]
    /\ idx = [t \in Threads |-> 0]
    /\ result = [t \in Threads |-> NoResult]

----------------------------------------------------------------------------
(* Endpoint functions *)

DefaultBr == 128

\* Mutant: only a missing value is refused, an empty string goes through.
RequiredMissing_NoneOnly(text) == text.ty = "none"

\* `if not search:` / `if not genre:` / `if not ct:`
RequiredMissing(text) == ~TruthyText(text)

\* Mutant: `or` in place of `and`.
AdvancedInvalid_Either(br, genre_id) == ~TruthyVal(br) \/ ~TruthyVal(genre_id)

\* `if not br and not genre_id:`
AdvancedInvalid(br, genre_id) == ~TruthyVal(br) /\ ~TruthyVal(genre_id)

\* Mutant: every endpoint function returns through the XML handler.
HandlerOf_AllXml(op) == "xml"

\* The handler each endpoint function returns through.
HandlerOf(op) ==
    CASE op = "top500" -> "xml"
      [] op = "keywords" -> "xml"
      [] op = "genre" -> "xml"
      [] op = "nowplaying" -> "json"
      [] op = "advanced" -> "json"
      [] op = "random" -> "json"

\* An endpoint function raises before building anything.
Reject(t, a, msg) ==
    /\ args' = [args EXCEPT ![t] = a]
    /\ result' = [result EXCEPT ![t] = Raised(msg)]
    /\ pc' = [pc EXCEPT ![t] = "done"]
    /\ UNCHANGED <<tuneins, urlargs, endpoint, handler, calls, response, stations, idx>>

\* An endpoint function builds `endpoint` and enters its handler.
Enter(t, a, path, params) ==
    /\ args' = [args EXCEPT ![t] = a]
    /\ urlargs' = [urlargs EXCEPT ![t] = params]
    /\ endpoint' = [endpoint EXCEPT ![t] = path \o build_url(a.limit, params)]
    /\ handler' = [handler EXCEPT ![t] = HandlerOf(a.op)]
    /\ pc' = [pc EXCEPT ![t] = "call"]
    /\ UNCHANGED <<tuneins, calls, response, stations, idx, result>>

get_top_500(t, I) ==
    /\ pc[t] = "idle"
    /\ \E k \in I.keys, limit \in I.limits, kw \in I.kwargs :
         LET a == [NoArgs EXCEPT !.op = "top500", !.k = k, !.limit = limit,
                                 !.kwargs = kw]
         IN  Enter(t, a, <<"/legacy/Top500?k=">> \o k, kw)

get_stations_keywords(t, I) ==
    /\ pc[t] = "idle"
    /\ \E k \in I.keys, search \in I.texts, limit \in I.limits, kw \in I.kwargs :
         LET a == [NoArgs EXCEPT !.op = "keywords", !.k = k, !.text = search,
                                 !.limit = limit, !.kwargs = kw]
         IN  IF RequiredMissing(search)
             THEN Reject(t, a, "Search query is required")
             ELSE Enter(t, a, <<"/legacy/stationsearch?k=">> \o k \o <<"&search=">>
                               \o EmbedText(search.chars), kw)

get_stations_by_genre(t, I) ==
    /\ pc[t] = "idle"
    /\ \E k \in I.keys, genre \in I.texts, limit \in I.limits, kw \in I.kwargs :
         LET a == [NoArgs EXCEPT !.op = "genre", !.k = k, !.text = genre,
                                 !.limit = limit, !.kwargs = kw]
         IN  IF RequiredMissing(genre)
             THEN Reject(t, a, "genre is required")
             ELSE Enter(t, a, <<"/legacy/stationsearch?k=">> \o k \o <<"&search=">>
                               \o EmbedText(genre.chars), kw)

get_stations_by_now_playing(t, I) ==
    /\ pc[t] = "idle"
    /\ \E k \in I.keys, ct \in I.texts, limit \in I.limits, kw \in I.kwargs :
         LET a == [NoArgs EXCEPT !.op = "nowplaying", !.k = k, !.text = ct,
                                 !.limit = limit, !.kwargs = kw]
         IN  IF RequiredMissing(ct)
             THEN Reject(t, a, "genre is required")
             ELSE Enter(t, a, <<"/station/nowplaying?k=">> \o k \o <<"&ct=">>
                               \o EmbedText(ct.chars) \o <<"&f=json">>, kw)

\* br_given = FALSE is a call that does not pass br: the default applies.
get_stations_bitrate_or_genre_id(t, I) ==
    /\ pc[t] = "idle"
    /\ \E k \in I.keys, b \in I.brs, genre_id \in I.genre_ids, limit \in I.limits,
          kw \in I.advkwargs :
         LET br == IF b.given THEN b.v ELSE IntV(DefaultBr)
             a == [NoArgs EXCEPT !.op = "advanced", !.k = k, !.limit = limit,
                                 !.br_given = b.given, !.br = br,
                                 !.genre_id = genre_id, !.kwargs = kw]
         IN  IF AdvancedInvalid(br, genre_id)
             THEN Reject(t, a, "genre_id or br is required")
             ELSE Enter(t, a, <<"/station/advancedsearch?k=">> \o k \o <<"&f=json">>,
                        <<<<"br", br>>, <<"genre_id", genre_id>>>> \o kw)

get_random_station(t, I) ==
    /\ pc[t] = "idle"
    /\ \E k \in I.keys, limit \in I.limits, kw \in I.kwargs :
         LET a == [NoArgs EXCEPT !.op = "random", !.k = k, !.limit = limit,
                                 !.kwargs = kw]
         IN  Enter(t, a, <<"/station/randomstations?k=">> \o k \o <<"&f=json">>, kw)

----------------------------------------------------------------------------
(* Handlers: _handle_url_action_xml and _handle_url_action_json *)

\* Mutant: `stations` is one module-level list.
StationsOf_Shared(t) == "t1"

\* `stations = list()` is a local of the running call.
StationsOf(t) == t

\* Mutant: `is None` in place of `not`.
StationFalsy_IsNone(st) == st.kind \in {"absent", "none"}

\* `not api_station_list.get('station')`
StationFalsy(st) ==
    \/ st.kind \in {"absent", "none"}
    \/ st.kind = "list" /\ st.items = <<>>
    \/ st.kind = "mapping" /\ st.rec = {}

\* `isinstance(api_stations, list)`
IsList(st) == st.kind = "list"

StripOf(fmt, rec) ==
    IF fmt = "xml" THEN station_xml_strip(rec) ELSE station_json_strip(rec)

\* Mutant: a collection that is no list is taken for no result.
SingleStations_Dropped(fmt, rec) == <<>>

\* `[Station(station_xml_strip(api_stations))]`
SingleStations(fmt, rec) == <<Station(StripOf(fmt, rec))>>

\* Mutant: a station already in the list is not appended again.
AppendStation_Unique(sts, fmt, item) ==
    IF \E j \in 1..Len(sts) : sts[j] = Station(StripOf(fmt, item))
    THEN sts
    ELSE Append(sts, Station(StripOf(fmt, item)))

\* `stations.append(Station(station_xml_strip(item)))`
AppendStation(sts, fmt, item) == Append(sts, Station(StripOf(fmt, item)))

\* Mutants: the exception is swallowed; the call is tried again.
FailureOutcome_Swallowed(err) == StationList("", <<>>)
PcAfterFailure_Retry == "call"

\* An exception of call_api_xml / call_api_json is not caught.
FailureOutcome(err) == Raised(err)
PcAfterFailure == "done"

\* Lines 9-10 / 27-28: the one transport call.
HandlerCall(t, fmt) ==
    /\ pc[t] = "call"
    /\ handler[t] = fmt
    /\ stations' = [stations EXCEPT ![StationsOf(t)] = <<>>]
    /\ calls' = [calls EXCEPT ![t] = Append(@, [fmt |-> fmt, endpoint |-> endpoint[t]])]
    /\ \E r \in Responses(fmt) :
         /\ response' = [response EXCEPT ![t] = r]
         /\ IF r.ok
            THEN /\ pc' = [pc EXCEPT ![t] = "got"]
                 /\ UNCHANGED result
            ELSE /\ pc' = [pc EXCEPT ![t] = PcAfterFailure]
                 /\ result' = [result EXCEPT ![t] = FailureOutcome(r.error)]
    /\ UNCHANGED <<tuneins, args, urlargs, endpoint, handler, idx>>

Return(t, value) ==
    /\ result' = [result EXCEPT ![t] = value]
    /\ pc' = [pc EXCEPT ![t] = "done"]

\* Lines 11-18 / 29-36: the shape of the station collection.
HandlerInspect(t, fmt) ==
    /\ pc[t] = "got"
    /\ handler[t] = fmt
    /\ LET r == response[t]
       IN  IF ~r.has_stationlist
           THEN Return(t, Raised("AttributeError")) /\ UNCHANGED idx
           ELSE IF StationFalsy(r.station)
           THEN Return(t, StationList(tuneins, <<>>)) /\ UNCHANGED idx
           ELSE IF ~IsList(r.station)
           THEN Return(t, StationList(tuneins, SingleStations(fmt, r.station.rec)))
                /\ UNCHANGED idx
           ELSE /\ pc' = [pc EXCEPT ![t] = "loop"]
                /\ idx' = [idx EXCEPT ![t] = 1]
                /\ UNCHANGED result
    /\ UNCHANGED <<tuneins, args, urlargs, endpoint, handler, calls, response, stations>>

\* Lines 20-21 / 38-39: one iteration of the for loop.
HandlerLoop(t, fmt) ==
    /\ pc[t] = "loop"
    /\ handler[t] = fmt
    /\ idx[t] <= Len(response[t].station.items)
    /\ stations' = [stations EXCEPT ![StationsOf(t)] =
                       AppendStation(@, fmt, response[t].station.items[idx[t]])]
    /\ idx' = [idx EXCEPT ![t] = @ + 1]
    /\ UNCHANGED <<tuneins, pc, args, urlargs, endpoint, handler, calls, response, result>>

\* Line 23 / 41.
HandlerReturn(t, fmt) ==
    /\ pc[t] = "loop"
    /\ handler[t] = fmt
    /\ idx[t] > Len(response[t].station.items)
    /\ Return(t, StationList(tuneins, stations[StationsOf(t)]))
    /\ UNCHANGED <<tuneins, args, urlargs, endpoint, handler, calls, response, stations, idx>>

handle_url_action_xml(t) ==
    \/ HandlerCall(t, "xml")
    \/ HandlerInspect(t, "xml")
    \/ HandlerLoop(t, "xml")
    \/ HandlerReturn(t, "xml")

handle_url_action_json(t) ==
    \/ HandlerCall(t, "json")
    \/ HandlerInspect(t, "json")
    \/ HandlerLoop(t, "json")
    \/ HandlerReturn(t, "json")

----------------------------------------------------------------------------
(* Specifications *)

Texts == {NoneText} \cup {StrText(s) : s \in SeqsUpTo(Chars, MaxLen)}

\* One caller: every argument shape.
AllInputs ==
    [keys |-> Keys,
     texts |-> Texts,
     limits |-> {<<>>, <<1, 20>>},
     kwargs |-> {<<>>, <<<<"mt", StrV("audio/mpeg")>>>>, <<<<"br", NoneV>>>>},
     advkwargs |-> {<<>>, <<<<"mt", StrV("audio/mpeg")>>>>},
     brs |-> {[given |-> FALSE, v |-> NoneV], [given |-> TRUE, v |-> NoneV],
              [given |-> TRUE, v |-> IntV(0)], [given |-> TRUE, v |-> IntV(64)]},
     genre_ids |-> {NoneV, IntV(0), IntV(7)}]

\* Concurrent callers: one argument shape per operation.
FewInputs ==
    [keys |-> {<<"k", "1">>},
     texts |-> {StrText(<<"a">>)},
     limits |-> {<<>>},
     kwargs |-> {<<>>},
     advkwargs |-> {<<>>},
     brs |-> {[given |-> FALSE, v |-> NoneV]},
     genre_ids |-> {NoneV}]

Step(t, I) ==
    \/ get_top_500(t, I)
    \/ get_stations_keywords(t, I)
    \/ get_stations_by_genre(t, I)
    \/ get_stations_by_now_playing(t, I)
    \/ get_stations_bitrate_or_genre_id(t, I)
    \/ get_random_station(t, I)
    \/ handle_url_action_xml(t)
    \/ handle_url_action_json(t)

Next == Step("t1", AllInputs)

Spec == Init /\ [][Next]_vars

NextConcurrent == \E t \in Threads : Step(t, FewInputs)

SpecConcurrent == Init /\ [][NextConcurrent]_vars

----------------------------------------------------------------------------
(* Properties *)

InvalidArgumentErrors ==
    {"Search query is required", "genre is required", "genre_id or br is required"}

TextOps == {"keywords", "genre", "nowplaying"}

Done(t) == pc[t] = "done"

\* The call of thread t went through the transport and got a body with a
\* `stationlist` mapping.
GotBody(t) == Done(t) /\ calls[t] # <<>> /\ response[t].ok /\ response[t].has_stationlist

\* C1: for both normalizers, a response whose station collection is absent,
\* None, an empty list or an empty mapping gives, without raising, a
\* StationList with zero stations and the current tunein value.
C1_EmptyCollection ==
    \A t \in Threads :
        LET st == response[t].station
        IN  (/\ GotBody(t)
             /\ \/ st.kind = "absent"
                \/ st.kind = "none"
                \/ st.kind = "list" /\ Len(st.items) = 0
                \/ st.kind = "mapping" /\ Cardinality(st.rec) = 0)
            => /\ result[t].kind = "StationList"
               /\ result[t].stations = <<>>
               /\ result[t].tunein = tuneins

C1_Witness ==
    \E t \in Threads :
        /\ GotBody(t)
        /\ handler[t] = "json"
        /\ response[t].station = StationMapping({})
        /\ result[t].kind = "StationList"

\* C2: for both normalizers, a station collection that is one non-empty raw
\* record (not a sequence) gives exactly one Station, built from that record,
\* with the current tunein value.
C2_SingleRecord ==
    \A t \in Threads :
        LET st == response[t].station
        IN  (GotBody(t) /\ st.kind = "mapping" /\ st.rec # {})
            => /\ result[t].kind = "StationList"
               /\ Len(result[t].stations) = 1
               /\ result[t].stations[1] = Station(StripOf(handler[t], st.rec))
               /\ result[t].tunein = tuneins

C2_Witness ==
    \E t \in Threads :
        /\ GotBody(t)
        /\ handler[t] = "xml"
        /\ response[t].station.kind = "mapping"
        /\ response[t].station.rec # {}
        /\ Len(result[t].stations) = 1

\* C3: for both normalizers, a sequence of N >= 1 raw records gives exactly N
\* Stations, the i-th built from the i-th record; duplicates are kept.
C3_SequenceOfRecords ==
    \A t \in Threads :
        LET st == response[t].station
        IN  (GotBody(t) /\ st.kind = "list" /\ Len(st.items) >= 1)
            => /\ result[t].kind = "StationList"
               /\ Len(result[t].stations) = Len(st.items)
               /\ \A j \in 1..Len(st.items) :
                    result[t].stations[j] = Station(StripOf(handler[t], st.items[j]))

C3_Witness ==
    \E t \in Threads :
        /\ GotBody(t)
        /\ response[t].station.kind = "list"
        /\ Len(response[t].station.items) = 2
        /\ response[t].station.items[1] = response[t].station.items[2]
        /\ Len(result[t].stations) = 2

\* C4: keyword, genre and now-playing search raise an InvalidArgument error
\* when their required text is empty or absent, and a call that ends in this
\* error has invoked the transport zero times.
C4_RequiredText ==
    \A t \in Threads :
        /\ (/\ args[t].op \in TextOps
            /\ \/ args[t].text.ty = "none"
               \/ args[t].text.chars = <<>>)
           => /\ result[t].kind = "raised"
              /\ result[t].error \in InvalidArgumentErrors
              /\ calls[t] = <<>>
        /\ (result[t].kind = "raised" /\ result[t].error \in InvalidArgumentErrors)
           => calls[t] = <<>>

C4_Witness ==
    \E t \in Threads :
        /\ args[t].op = "nowplaying"
        /\ args[t].text = StrText(<<>>)
        /\ result[t].kind = "raised"
        /\ Done(t)

\* C5: the advanced search raises InvalidArgument, with no transport call,
\* exactly when the br and genre_id it was given are both empty; a call that
\* does not pass br runs with br = 128 and goes on to the transport with
\* br=128 among the filters.
C5_BitrateOrGenreId ==
    \A t \in Threads :
        args[t].op = "advanced" =>
            LET a == args[t]
                brEmpty == a.br_given /\ (a.br.ty = "none" \/ a.br = IntV(0))
                gidEmpty == a.genre_id.ty = "none" \/ a.genre_id = IntV(0)
                rejected == /\ result[t] = Raised("genre_id or br is required")
                            /\ calls[t] = <<>>
                            /\ Done(t)
            IN  /\ rejected <=> (brEmpty /\ gidEmpty)
                /\ ~a.br_given =>
                     /\ a.br = IntV(128)
                     /\ pc[t] \in {"call", "got", "loop", "done"}
                     /\ \E j \in 1..Len(urlargs[t]) : urlargs[t][j] = <<"br", IntV(128)>>
                     /\ \A j \in 1..Len(calls[t]) :
                          calls[t][j].endpoint =
                              <<"/station/advancedsearch?k=">> \o a.k \o <<"&f=json">>
                              \o build_url(a.limit, <<<<"br", IntV(128)>>,
                                                      <<"genre_id", a.genre_id>>>>
                                                     \o a.kwargs)

C5_Witness ==
    \E t \in Threads :
        /\ args[t].op = "advanced"
        /\ ~args[t].br_given
        /\ args[t].genre_id = NoneV
        /\ Len(calls[t]) = 1
        /\ Done(t)

\* C6: a call that passes validation issues exactly one transport call and
\* returns only after it; no call ever issues a second one.
C6_ExactlyOneTransportCall ==
    \A t \in Threads :
        LET rejected == result[t].kind = "raised"
                        /\ result[t].error \in InvalidArgumentErrors
        IN  /\ Len(calls[t]) <= 1
            /\ (result[t].kind # "none" /\ ~rejected) => Len(calls[t]) = 1
            /\ (Done(t) /\ ~rejected) => Len(calls[t]) = 1
            /\ Done(t) => result[t].kind # "none"

C6_Witness ==
    \E t \in Threads :
        /\ Done(t)
        /\ ~response[t].ok
        /\ Len(calls[t]) = 1

\* C7: a transport failure reaches the caller unchanged, and a finished call
\* has either raised or returned a StationList holding every record of the
\* response: never a part of them.
C7_FailurePropagates ==
    \A t \in Threads :
        LET st == response[t].station
            records == IF st.kind = "list" THEN Len(st.items)
                       ELSE IF st.kind = "mapping" /\ st.rec # {} THEN 1 ELSE 0
        IN  /\ Done(t) => result[t].kind \in {"StationList", "raised"}
            /\ ~Done(t) => result[t].kind = "none"
            /\ (Done(t) /\ calls[t] # <<>> /\ ~response[t].ok)
               => /\ result[t].kind = "raised"
                  /\ result[t].error = response[t].error
                  /\ result[t].error \in TransportErrors
            /\ result[t].kind = "StationList"
               => /\ response[t].ok
                  /\ Len(result[t].stations) = records

C7_Witness ==
    \E t \in Threads :
        /\ Done(t)
        /\ calls[t] # <<>>
        /\ response[t] = TransportFailure("HTTPError")
        /\ result[t].kind = "raised"

\* The free text embedded in the endpoint of a call that passed validation.
Embedded(t) ==
    LET a == args[t]
        head == IF a.op = "nowplaying"
                THEN <<"/station/nowplaying?k=">> \o a.k \o <<"&ct=">>
                ELSE <<"/legacy/stationsearch?k=">> \o a.k \o <<"&search=">>
        tail == (IF a.op = "nowplaying" THEN <<"&f=json">> ELSE <<>>)
                \o build_url(a.limit, urlargs[t])
    IN  SubSeq(endpoint[t], Len(head) + 1, Len(endpoint[t]) - Len(tail))

\* C8: the free text embedded in the endpoint is the input stripped of leading
\* and trailing whitespace, with each remaining space replaced by "+".
C8_StrippedThenPlus ==
    \A t \in Threads :
        (args[t].op \in TextOps /\ endpoint[t] # <<>>)
        => Embedded(t) = ReplaceSpaces(Strip(args[t].text.chars))

\* The filters an operation hands to the URL Builder.
FiltersOf(a) ==
    IF a.op = "advanced"
    THEN <<<<"br", a.br>>, <<"genre_id", a.genre_id>>>> \o a.kwargs
    ELSE a.kwargs

\* ep is head, then free text, then tail.
Framed(ep, head, tail) ==
    /\ Len(ep) >= Len(head) + Len(tail)
    /\ SubSeq(ep, 1, Len(head)) = head
    /\ SubSeq(ep, Len(ep) - Len(tail) + 1, Len(ep)) = tail
    /\ \A j \in (Len(head) + 1)..(Len(ep) - Len(tail)) : ep[j] \in Chars \cup {"+"}

\* C9: each operation uses its own path and response format: top-500,
\* keyword and genre search go through the XML transport and normalizer,
\* now-playing, advanced and random stations through the JSON ones; the
\* endpoint handed to the transport is the operation's path followed by the
\* URL Builder's suffix.
C9_PathAndFormat ==
    \A t \in Threads :
        handler[t] # "none" =>
            LET a == args[t]
                suffix == build_url(a.limit, FiltersOf(a))
                fmt == IF a.op \in {"top500", "keywords", "genre"} THEN "xml" ELSE "json"
                rightPath(ep) ==
                    CASE a.op = "top500" ->
                           ep = <<"/legacy/Top500?k=">> \o a.k \o suffix
                      [] a.op \in {"keywords", "genre"} ->
                           Framed(ep, <<"/legacy/stationsearch?k=">> \o a.k
                                      \o <<"&search=">>, suffix)
                      [] a.op = "nowplaying" ->
                           Framed(ep, <<"/station/nowplaying?k=">> \o a.k \o <<"&ct=">>,
                                  <<"&f=json">> \o suffix)
                      [] a.op = "advanced" ->
                           ep = <<"/station/advancedsearch?k=">> \o a.k
                                \o <<"&f=json">> \o suffix
                      [] a.op = "random" ->
                           ep = <<"/station/randomstations?k=">> \o a.k
                                \o <<"&f=json">> \o suffix
                      [] OTHER -> FALSE
            IN  /\ handler[t] = fmt
                /\ rightPath(endpoint[t])
                /\ \A j \in 1..Len(calls[t]) :
                     calls[t][j].fmt = fmt /\ rightPath(calls[t][j].endpoint)
                /\ (GotBody(t) /\ response[t].station.kind = "mapping"
                    /\ response[t].station.rec # {})
                   => result[t].stations =
                        <<Station(IF fmt = "xml"
                                  THEN station_xml_strip(response[t].station.rec)
                                  ELSE station_json_strip(response[t].station.rec))>>

C9_Witness ==
    \E t \in Threads :
        /\ args[t].op = "random"
        /\ args[t].limit # <<>>
        /\ args[t].kwargs # <<>>
        /\ Len(calls[t]) = 1
        /\ calls[t][1].fmt = "json"
        /\ GotBody(t)
        /\ response[t].station.kind = "mapping"
        /\ response[t].station.rec # {}

\* What a call returns when it runs alone on response r.
Alone(fmt, r, tunein) ==
    LET st == r.station
    IN  IF ~r.ok THEN Raised(r.error)
        ELSE IF ~r.has_stationlist THEN Raised("AttributeError")
        ELSE IF st.kind \in {"absent", "none"} THEN StationList(tunein, <<>>)
        ELSE IF st.kind = "mapping"
        THEN StationList(tunein, IF st.rec = {} THEN <<>>
                                 ELSE <<Station(StripOf(fmt, st.rec))>>)
        ELSE StationList(tunein,
                         [j \in 1..Len(st.items) |-> Station(StripOf(fmt, st.items[j]))])

Isolated ==
    \A t \in Threads :
        (Done(t) /\ calls[t] # <<>>) => result[t] = Alone(handler[t], response[t], tuneins)

\* C10: under any interleaving of concurrent calls, no step of an endpoint
\* function or normalizer writes the tunein value, and each call returns what
\* it would return alone on its own transport response.
C10_ConcurrentCalls == [][tuneins' = tuneins]_vars /\ []Isolated

C10_Witness ==
    /\ Done("t1") /\ Done("t2")
    /\ handler["t1"] = "xml" /\ handler["t2"] = "json"
    /\ Len(result["t1"].stations) = 2
    /\ Len(result["t2"].stations) = 1
    /\ response["t2"].station.kind = "list"

====
